---- MODULE Spec2Model ----
(***************************************************************************)
(* Model of cmd/port-scanner/scan.go: the port scanner's scan engine.      *)
(*                                                                         *)
(* Spec        one scan() on a freshly constructed scanner: the loop of    *)
(*             scan(), one probe goroutine per port, the mutex guarded     *)
(*             append, the WaitGroup barrier and the return.               *)
(* FairSpec    Spec with the fairness of the Go scheduler.                 *)
(* RangeSpec   portsToScan() and the range loop consuming its result,      *)
(*             with the program's own limits 1024 and 65535.               *)
(* RunSpec     scanCmd.Run: the host check, newScanner, the err check and  *)
(*             the scan.                                                   *)
(* RescanSpec  a caller that calls scan() again on the same scanner.       *)
(*                                                                         *)
(* scan() starts one goroutine per port of portsToScan(scanAll), that is    *)
(* 1023 or 65534 goroutines.  Spec follows the goroutines of the ports in   *)
(* Watched only: the port list scan() ranges over is cut down to its        *)
(* Watched members, in the order of the list.  Port numbers and the limits  *)
(* are the program's.                                                       *)
(***************************************************************************)
EXTENDS Integers, Sequences, FiniteSets, TLC

\* scan.go:17-18
wellKnownPorts == 1024
allPorts == 65535

\* Number of low ports (1..MaxLow) whose goroutines are followed.
MaxLow == 2

\* Number of scan() calls made on one scanner by a caller that scans again.
MaxScans == 2

\* The ports whose goroutines are followed: some well-known ports and one
\* port that is only in the full range.
Watched == (1..MaxLow) \cup {8080}

\* The hosts a scanner can have been constructed with (newScanner accepts
\* IP literals only).
Hosts == {"127.0.0.1"}

VARIABLES
    \* the scanner (scan.go:76-84)
    host,        \* s.host
    scanAll,     \* s.scanAll
    openPorts,   \* s.openPorts
    locked,      \* s.Mutex: TRUE while locked
    \* scan()'s frame
    ctx,         \* the context passed to scan(): "active" or "cancelled"
    pc,          \* position of the goroutine running scan()
    idx,         \* position of the range loop in the port list
    port,        \* the loop variable 'port'
    wg,          \* the WaitGroup counter
    ret,         \* the value scan() returned
    \* probe goroutines, numbered by the loop iteration that started them
    gpc,         \* position of each probe goroutine
    p,           \* the parameter p of each probe goroutine
    dialled,     \* the port each goroutine handed to isOpen (0: none yet)
    found,       \* what isOpen returned to each goroutine
    tmp,         \* the slice append() read, while it builds the new one
    \* the target
    listening,   \* the ports of the target that accept a connection
    \* portsToScan() and its consumer (RangeSpec)
    rpc,         \* position of the caller of portsToScan()
    rAll,        \* the argument shouldScanAll
    ridx,        \* how many values of the result have been ranged over
    rport,       \* the value ranged over last
    \* the caller: scanCmd.Run (scan.go:47-73), or a caller that scans again
    cmdHost,     \* cmd.host, the --host flag
    cmdAll,      \* cmd.shouldScanAll, the --all flag
    runpc,       \* position of Run ("off": the scanner came from elsewhere)
    usage,       \* how often fl.Usage() has printed the usage text
    nsErr,       \* the error newScanner returned ("none": nil)
    sptr,        \* the *scanner newScanner returned ("nil" or "scanner")
    rets         \* what the earlier scan() calls on this scanner returned

scanVars == <<host, scanAll, openPorts, locked, ctx, pc, idx, port, wg, ret,
              gpc, p, dialled, found, tmp, listening>>
rangeVars == <<rpc, rAll, ridx, rport>>
callVars == <<cmdHost, cmdAll, runpc, usage, nsErr, sptr, rets>>
vars == <<scanVars, rangeVars, callVars>>

----------------------------------------------------------------------------
\* portsToScan (scan.go:129-140)

\* Variants of portsToScan with a slip in the loop bounds or in the choice
\* of max; the properties below tell them from portsToScan.
portsToScanInclusive(shouldScanAll) ==
    LET max == IF shouldScanAll THEN allPorts ELSE wellKnownPorts
    IN  [i \in 1..max |-> i]

portsToScanFromZero(shouldScanAll) ==
    LET max == IF shouldScanAll THEN allPorts ELSE wellKnownPorts
    IN  [i \in 1..max |-> i - 1]

portsToScanFlagInverted(shouldScanAll) ==
    LET max == IF shouldScanAll THEN wellKnownPorts ELSE allPorts
    IN  [i \in 1..(max - 1) |-> i]

\* for port := 1; port < max; port++ { ports = append(ports, port) }
portsToScan(shouldScanAll) ==
    LET max == IF shouldScanAll THEN allPorts ELSE wellKnownPorts
    IN  [i \in 1..(max - 1) |-> i]

\* len() of what portsToScan returns
lenWellKnown == Len(portsToScan(FALSE))
lenAll == Len(portsToScan(TRUE))
portsLen(shouldScanAll) == IF shouldScanAll THEN lenAll ELSE lenWellKnown

\* The part of a port list whose goroutines are followed.
IsWatched(q) == q \in Watched
watchedWellKnown == SelectSeq(portsToScan(FALSE), IsWatched)
watchedAll == SelectSeq(portsToScan(TRUE), IsWatched)
scanList(all) == IF all THEN watchedAll ELSE watchedWellKnown

\* Goroutine numbers: at most one goroutine per followed port.
Goroutines == 1..Cardinality(Watched)

\* isOpen (scan.go:142-150): the dial succeeds exactly on a port the target
\* accepts connections on.  (isOpenInverted: the err check the wrong way
\* round.)
isOpenInverted(h, q) == q \notin listening

isOpen(h, q) == q \in listening

----------------------------------------------------------------------------
\* The state after newScanner (scan.go:86-96) returned a scanner: host is a
\* valid IP literal, openPorts is nil, the mutex is unlocked.

ScannerInit ==
    /\ host \in Hosts
    /\ scanAll \in BOOLEAN
    /\ openPorts = <<>>
    /\ locked = FALSE

ScanInit ==
    /\ ScannerInit
    /\ ctx = "active"
    /\ pc = "range"
    /\ idx = 0
    /\ port = 0
    /\ wg = 0
    /\ ret = <<>>
    /\ gpc = [g \in Goroutines |-> "idle"]
    /\ p = [g \in Goroutines |-> 0]
    /\ dialled = [g \in Goroutines |-> 0]
    /\ found = [g \in Goroutines |-> FALSE]
    /\ tmp = [g \in Goroutines |-> <<>>]

RangeIdle ==
    /\ rpc = "off"
    /\ rAll = FALSE
    /\ ridx = 0
    /\ rport = 0

\* Run is not the caller: the scanner is taken as newScanner left it.
CallIdle ==
    /\ cmdHost = ""
    /\ cmdAll = FALSE
    /\ runpc = "off"
    /\ usage = 0
    /\ nsErr = "none"
    /\ sptr = "scanner"
    /\ rets = <<>>

Init ==
    /\ ScanInit
    /\ listening \in SUBSET Watched
    /\ RangeIdle
    /\ CallIdle

----------------------------------------------------------------------------
\* scanner.scan, the goroutine that runs it (scan.go:106-127)

\* for _, port := range portsToScan(s.scanAll): the next iteration
LoopNext ==
    /\ pc = "range"
    /\ idx < Len(scanList(scanAll))
    /\ idx' = idx + 1
    /\ port' = scanList(scanAll)[idx + 1]
    /\ pc' = "add"
    /\ UNCHANGED <<host, scanAll, openPorts, locked, ctx, wg, ret,
                   gpc, p, dialled, found, tmp, listening, rangeVars, callVars>>

\* the range is exhausted: on to wg.Wait()
LoopEnd ==
    /\ pc = "range"
    /\ idx = Len(scanList(scanAll))
    /\ pc' = "wait"
    /\ UNCHANGED <<host, scanAll, openPorts, locked, ctx, idx, port, wg, ret,
                   gpc, p, dialled, found, tmp, listening, rangeVars, callVars>>

\* wg.Add(1)
WgAdd ==
    /\ pc = "add"
    /\ wg' = wg + 1
    /\ pc' = "go"
    /\ UNCHANGED <<host, scanAll, openPorts, locked, ctx, idx, port, ret,
                   gpc, p, dialled, found, tmp, listening, rangeVars, callVars>>

\* go func(p int) {...}(port): the argument is evaluated here.  The go
\* statement never waits.  (GoBounded: a scan that keeps at most two probes
\* in flight.)
GoBounded ==
    /\ pc = "go"
    /\ Cardinality({g \in Goroutines : gpc[g] \notin {"idle", "exited"}}) < 2
    /\ gpc' = [gpc EXCEPT ![idx] = "isOpen"]
    /\ p' = [p EXCEPT ![idx] = port]
    /\ pc' = "range"
    /\ UNCHANGED <<host, scanAll, openPorts, locked, ctx, idx, port, wg, ret,
                   dialled, found, tmp, listening, rangeVars, callVars>>

Go ==
    /\ pc = "go"
    /\ gpc' = [gpc EXCEPT ![idx] = "isOpen"]
    /\ p' = [p EXCEPT ![idx] = port]
    /\ pc' = "range"
    /\ UNCHANGED <<host, scanAll, openPorts, locked, ctx, idx, port, wg, ret,
                   dialled, found, tmp, listening, rangeVars, callVars>>

\* wg.Wait() returns once the counter is zero.  (WaitPassesAnytime: a scan
\* that does not wait.)
WaitPassesAnytime == TRUE

WaitPasses == wg = 0

Wait ==
    /\ pc = "wait"
    /\ WaitPasses
    /\ pc' = "return"
    /\ UNCHANGED <<host, scanAll, openPorts, locked, ctx, idx, port, wg, ret,
                   gpc, p, dialled, found, tmp, listening, rangeVars, callVars>>

\* return s.openPorts
Return ==
    /\ pc = "return"
    /\ ret' = openPorts
    /\ pc' = "done"
    /\ UNCHANGED <<host, scanAll, openPorts, locked, ctx, idx, port, wg,
                   gpc, p, dialled, found, tmp, listening, rangeVars, callVars>>

----------------------------------------------------------------------------
\* The probe goroutine started by iteration g of the loop (scan.go:115-123)

\* the port the goroutine works on: its own parameter p.  (loopVariable: a
\* closure that reads the loop variable instead.)
loopVariable(g) == port

param(g) == p[g]

\* isOpen(s.host, p): the context plays no part.  (probeUnlessCancelled: a
\* probe that gives up on a cancelled context.)
probeUnlessCancelled(g) == ctx = "active" /\ isOpen(host, param(g))

probe(g) == isOpen(host, param(g))

\* if isOpen(...) { s.add(p) }, then the goroutine ends.
\* (afterProbeInverted: the condition negated.)
afterProbeInverted(g) == IF probe(g) THEN "wgDone" ELSE "lock"

afterProbe(g) == IF probe(g) THEN "lock" ELSE "wgDone"

\* (IsOpenCallKeepingAddr: a probe that stores the address it dials in
\* s.host.)
IsOpenCallKeepingAddr(g) ==
    /\ gpc[g] = "isOpen"
    /\ host' = "addr"
    /\ dialled' = [dialled EXCEPT ![g] = param(g)]
    /\ found' = [found EXCEPT ![g] = probe(g)]
    /\ gpc' = [gpc EXCEPT ![g] = afterProbe(g)]
    /\ UNCHANGED <<scanAll, openPorts, locked, ctx, pc, idx, port, wg,
                   ret, p, tmp, listening, rangeVars, callVars>>

IsOpenCall(g) ==
    /\ gpc[g] = "isOpen"
    /\ dialled' = [dialled EXCEPT ![g] = param(g)]
    /\ found' = [found EXCEPT ![g] = probe(g)]
    /\ gpc' = [gpc EXCEPT ![g] = afterProbe(g)]
    /\ UNCHANGED <<host, scanAll, openPorts, locked, ctx, pc, idx, port, wg,
                   ret, p, tmp, listening, rangeVars, callVars>>

\* scanner.add (scan.go:98-104)

\* s.Lock() blocks while the mutex is locked.  (mutexIgnored: add() without
\* the lock.)
mutexIgnored == TRUE

mutexFree == ~locked

Lock(g) ==
    /\ gpc[g] = "lock"
    /\ mutexFree
    /\ locked' = TRUE
    /\ gpc' = [gpc EXCEPT ![g] = "read"]
    /\ UNCHANGED <<host, scanAll, openPorts, ctx, pc, idx, port, wg, ret,
                   p, dialled, found, tmp, listening, rangeVars, callVars>>

\* append(s.openPorts, port) reads the slice ...
AppendRead(g) ==
    /\ gpc[g] = "read"
    /\ tmp' = [tmp EXCEPT ![g] = openPorts]
    /\ gpc' = [gpc EXCEPT ![g] = "write"]
    /\ UNCHANGED <<host, scanAll, openPorts, locked, ctx, pc, idx, port, wg,
                   ret, p, dialled, found, listening, rangeVars, callVars>>

\* ... and s.openPorts = stores the longer one.  (AppendWriteSorted: an add
\* that keeps the slice ordered by port number.)
InsertSorted(s, q) ==
    LET k == Cardinality({i \in DOMAIN s : s[i] < q})
    IN  SubSeq(s, 1, k) \o <<q>> \o SubSeq(s, k + 1, Len(s))

AppendWriteSorted(g) ==
    /\ gpc[g] = "write"
    /\ openPorts' = InsertSorted(tmp[g], param(g))
    /\ tmp' = [tmp EXCEPT ![g] = <<>>]
    /\ gpc' = [gpc EXCEPT ![g] = "unlock"]
    /\ UNCHANGED <<host, scanAll, locked, ctx, pc, idx, port, wg, ret,
                   p, dialled, found, listening, rangeVars, callVars>>

AppendWrite(g) ==
    /\ gpc[g] = "write"
    /\ openPorts' = Append(tmp[g], param(g))
    /\ tmp' = [tmp EXCEPT ![g] = <<>>]
    /\ gpc' = [gpc EXCEPT ![g] = "unlock"]
    /\ UNCHANGED <<host, scanAll, locked, ctx, pc, idx, port, wg, ret,
                   p, dialled, found, listening, rangeVars, callVars>>

\* s.Unlock() leaves the mutex unlocked.  (lockLeftHeld: the Unlock
\* forgotten.)
lockLeftHeld == TRUE

unlocked == FALSE

Unlock(g) ==
    /\ gpc[g] = "unlock"
    /\ locked' = unlocked
    /\ gpc' = [gpc EXCEPT ![g] = "wgDone"]
    /\ UNCHANGED <<host, scanAll, openPorts, ctx, pc, idx, port, wg, ret,
                   p, dialled, found, tmp, listening, rangeVars, callVars>>

\* the deferred wg.Done() (scan.go:116), as the goroutine exits.
\* (WgDoneMissing: a goroutine that exits without it.)
WgDoneMissing(g) ==
    /\ gpc[g] = "wgDone"
    /\ gpc' = [gpc EXCEPT ![g] = "exited"]
    /\ UNCHANGED <<host, scanAll, openPorts, locked, ctx, pc, idx, port, wg,
                   ret, p, dialled, found, tmp, listening, rangeVars, callVars>>

WgDone(g) ==
    /\ gpc[g] = "wgDone"
    /\ wg' = wg - 1
    /\ gpc' = [gpc EXCEPT ![g] = "exited"]
    /\ UNCHANGED <<host, scanAll, openPorts, locked, ctx, pc, idx, port, ret,
                   p, dialled, found, tmp, listening, rangeVars, callVars>>

----------------------------------------------------------------------------
\* The cancel function of the context handed to scan() (scan.go:48), called
\* by its owner at any moment before scan() has returned.
Cancel ==
    /\ ctx = "active"
    /\ pc # "done"
    /\ ctx' = "cancelled"
    /\ UNCHANGED <<host, scanAll, openPorts, locked, pc, idx, port, wg, ret,
                   gpc, p, dialled, found, tmp, listening, rangeVars, callVars>>

ScanMain == LoopNext \/ LoopEnd \/ WgAdd \/ Go \/ Wait \/ Return

Probe(g) ==
    \/ IsOpenCall(g)
    \/ Lock(g)
    \/ AppendRead(g)
    \/ AppendWrite(g)
    \/ Unlock(g)
    \/ WgDone(g)

ScanStep == ScanMain \/ \E g \in Goroutines : Probe(g)

Next ==
    \/ LoopNext
    \/ LoopEnd
    \/ WgAdd
    \/ Go
    \/ Wait
    \/ Return
    \/ \E g \in Goroutines : IsOpenCall(g)
    \/ \E g \in Goroutines : Lock(g)
    \/ \E g \in Goroutines : AppendRead(g)
    \/ \E g \in Goroutines : AppendWrite(g)
    \/ \E g \in Goroutines : Unlock(g)
    \/ \E g \in Goroutines : WgDone(g)
    \/ Cancel

Spec == Init /\ [][Next]_vars

\* The Go scheduler runs every runnable goroutine eventually, and a goroutine
\* blocked in Lock() gets the mutex once it stays free.
FairSpec ==
    /\ Spec
    /\ WF_vars(ScanMain)
    /\ \A g \in Goroutines : WF_vars(Probe(g))

----------------------------------------------------------------------------
\* portsToScan(shouldScanAll) and a range loop over what it returns, as at
\* scan.go:110, one value per step.

RangeInit ==
    /\ ScanInit
    /\ scanAll = FALSE
    /\ listening = {}
    /\ rpc = "range"
    /\ rAll \in BOOLEAN
    /\ ridx = 0
    /\ rport = 0
    /\ CallIdle

PortsNext ==
    /\ rpc = "range"
    /\ ridx < portsLen(rAll)
    /\ ridx' = ridx + 1
    /\ rport' = portsToScan(rAll)[ridx + 1]
    /\ UNCHANGED <<rpc, rAll, scanVars, callVars>>

PortsEnd ==
    /\ rpc = "range"
    /\ ridx >= portsLen(rAll)
    /\ rpc' = "done"
    /\ UNCHANGED <<rAll, ridx, rport, scanVars, callVars>>

RangeNext == PortsNext \/ PortsEnd

RangeSpec == RangeInit /\ [][RangeNext]_vars

----------------------------------------------------------------------------
\* Properties of one scan()

Range(s) == {s[i] : i \in DOMAIN s}
NoDuplicates(s) == \A i, j \in DOMAIN s : i # j => s[i] # s[j]
\* the ports scan() ranges over, and the goroutines it starts for them
Ports == Range(scanList(scanAll))
Started == 1..Len(scanList(scanAll))
DialsOf(q) == {g \in Goroutines : dialled[g] = q}

\* C1: when scan() has returned, a port of the port list is in the returned
\* slice if and only if the isOpen call made for it by this scan returned
\* true.
C1_ResultIffProbeOpen ==
    pc = "done" =>
        \A q \in Ports :
            q \in Range(ret) <=> \E g \in Goroutines : dialled[g] = q /\ found[g]

C1_Witness ==
    /\ pc = "done"
    /\ \E q \in Ports : q \in Range(ret)
    /\ \E q \in Ports : q \notin Range(ret)

\* C2: scan() gets past wg.Wait() only when every goroutine it started has
\* exited, and the slice it returned is the final openPorts: nothing is
\* appended after the read.
C2_Barrier ==
    /\ pc \in {"return", "done"} =>
           /\ idx = Len(scanList(scanAll))
           /\ \A g \in Started : gpc[g] = "exited"
    /\ pc = "done" => ret = openPorts

C2_Witness ==
    /\ pc = "done"
    /\ Len(ret) >= 2

\* C3: when every probe of the scan reported open, the returned slice holds
\* every port scanned once: as many entries as ports, no duplicate, none
\* missing.
C3_NoLostUpdates ==
    (pc = "done" /\ \A g \in Started : found[g]) =>
        /\ Len(ret) = Len(scanList(scanAll))
        /\ NoDuplicates(ret)
        /\ Range(ret) = Ports

C3_Witness ==
    /\ pc = "done"
    /\ scanAll
    /\ \A g \in Started : found[g]
    /\ Len(ret) = Len(scanList(TRUE))

\* C4: in every state during and after the scan, no port is in openPorts
\* twice.
C4_NoPortTwice == NoDuplicates(openPorts)

C4_Witness ==
    /\ pc # "done"
    /\ Len(openPorts) >= 2
    /\ \E g \in Goroutines : gpc[g] \in {"lock", "read", "write"}

\* C5: a goroutine dials the port that was the loop value when it was
\* started (the g-th of the list), always inside [1, max) with max 1024 or
\* 65535; what is appended is such a port; and when scan() has returned
\* every port of the list has been dialled exactly once.
C5_EachPortOnceInRange ==
    LET max == IF scanAll THEN 65535 ELSE 1024 IN
    /\ \A g \in Goroutines :
           dialled[g] # 0 =>
               /\ g \in Started
               /\ dialled[g] = scanList(scanAll)[g]
               /\ dialled[g] >= 1
               /\ dialled[g] < max
    /\ Range(openPorts) \subseteq
           {scanList(scanAll)[g] : g \in {h \in Started : found[h]}}
    /\ pc = "done" => \A q \in Ports : Cardinality(DialsOf(q)) = 1

C5_Witness ==
    /\ pc = "done"
    /\ ~scanAll
    /\ 8080 \in listening
    /\ Len(ret) = MaxLow

----------------------------------------------------------------------------
\* Properties of portsToScan

\* C6: the k-th value of portsToScan is k, and there are 1023 of them when
\* shouldScanAll is false and 65534 when it is true: the result is 1..1023,
\* respectively 1..65534, without 0 and without 1024, respectively 65535.
C6_PortsToScanExact ==
    /\ ridx >= 1 => rport = ridx
    /\ ridx >= 1 => rport # 0
    /\ rport # (IF rAll THEN 65535 ELSE 1024)
    /\ rpc = "done" => ridx = (IF rAll THEN 65534 ELSE 1023)

C6_Witness ==
    /\ rpc = "done"
    /\ rAll
    /\ rport = 65534

----------------------------------------------------------------------------
\* More properties of one scan()

\* C8 as stated: with 8080 the only listening port and scanAll false,
\* scan() returns [8080].
C8_Returns8080 ==
    (pc = "done" /\ ~scanAll /\ listening = {8080}) => ret = <<8080>>

\* C8, amended: with 8080 the only listening port, scan() returns [8080]
\* when scanAll is true and the empty slice when scanAll is false.
C8_Returns8080OnlyIfScanAll ==
    (pc = "done" /\ listening = {8080}) =>
        ret = (IF scanAll THEN <<8080>> ELSE <<>>)

C8_Witness ==
    /\ pc = "done"
    /\ ~scanAll
    /\ listening = {8080}
    /\ ret = <<>>
    /\ \A g \in Started : dialled[g] # 0

\* C9: a scan whose context was cancelled before it returned has still
\* dialled every port of the list, has waited for every goroutine, and
\* returns the ports an uncancelled scan returns: those of the list that
\* accept a connection.
C9_CancelHasNoEffect ==
    (pc = "done" /\ ctx = "cancelled") =>
        /\ \A q \in Ports : DialsOf(q) # {}
        /\ \A g \in Started : gpc[g] = "exited"
        /\ Range(ret) = {q \in Ports : isOpen(host, q)}

C9_Witness ==
    /\ pc = "done"
    /\ ctx = "cancelled"
    /\ Len(ret) >= 1

\* C10: under the scheduler's fairness scan() returns, every goroutine that
\* was started exits, the mutex is always released again, and until scan()
\* has returned some step of scan() or of a goroutine is possible.
C10_Terminates ==
    /\ <>(pc = "done")
    /\ \A g \in Goroutines : (gpc[g] # "idle") ~> (gpc[g] = "exited")
    /\ locked ~> ~locked
    /\ [](pc # "done" => ENABLED ScanStep)

C10_Witness ==
    /\ pc = "done"
    /\ ~locked
    /\ wg = 0
    /\ Len(ret) = Len(scanList(scanAll))
    /\ Len(ret) >= 2

----------------------------------------------------------------------------
\* scanCmd.Run (scan.go:47-73) with newScanner (scan.go:86-96)

\* Values of the --host flag: not given, two IP literals, a host name and
\* another string that is no IP address.
HostInputs == {"", "127.0.0.1", "::1", "example.com", "not-an-ip"}

\* net.ParseIP on these inputs: the IP, or "nil" for what is no IP literal.
parseIP(h) == IF h \in {"127.0.0.1", "::1"} THEN h ELSE "nil"

\* if net.ParseIP(host) == nil { return nil, error }.  (hostRejectedInverted:
\* the comparison the wrong way round.)
hostRejectedInverted(h) == parseIP(h) # "nil"

hostRejected(h) == parseIP(h) = "nil"

\* if err != nil { usage; log.Fatalf }.  (runFailsInverted: err == nil.)
runFailsInverted(e) == e = "none"

runFails(e) == e # "none"

\* Run has the flags; no scanner exists and scan() has not been called.
RunInit ==
    /\ cmdHost \in HostInputs
    /\ cmdAll \in BOOLEAN
    /\ runpc = "start"
    /\ usage = 0
    /\ nsErr = "none"
    /\ sptr = "nil"
    /\ rets = <<>>
    /\ host = ""
    /\ scanAll = FALSE
    /\ openPorts = <<>>
    /\ locked = FALSE
    /\ ctx = "active"
    /\ pc = "none"
    /\ idx = 0
    /\ port = 0
    /\ wg = 0
    /\ ret = <<>>
    /\ gpc = [g \in Goroutines |-> "idle"]
    /\ p = [g \in Goroutines |-> 0]
    /\ dialled = [g \in Goroutines |-> 0]
    /\ found = [g \in Goroutines |-> FALSE]
    /\ tmp = [g \in Goroutines |-> <<>>]
    /\ listening \in SUBSET Watched
    /\ RangeIdle

\* if cmd.host == "" { fl.Usage(); log.Fatal(...) }  (scan.go:51-54)
RunCheckHost ==
    /\ runpc = "start"
    /\ IF cmdHost = ""
       THEN usage' = usage + 1 /\ runpc' = "fatal"
       ELSE usage' = usage /\ runpc' = "newScanner"
    /\ UNCHANGED <<scanVars, rangeVars, cmdHost, cmdAll, nsErr, sptr, rets>>

\* scanner, err := newScanner(cmd.host, cmd.shouldScanAll)  (scan.go:56)
NewScannerCall ==
    /\ runpc = "newScanner"
    /\ IF hostRejected(cmdHost)
       THEN /\ nsErr' = "invalid ip address"
            /\ sptr' = "nil"
            /\ UNCHANGED <<host, scanAll, openPorts, locked>>
       ELSE /\ nsErr' = "none"
            /\ sptr' = "scanner"
            /\ host' = cmdHost
            /\ scanAll' = cmdAll
            /\ openPorts' = <<>>
            /\ locked' = FALSE
    /\ runpc' = "checkErr"
    /\ UNCHANGED <<ctx, pc, idx, port, wg, ret, gpc, p, dialled, found, tmp,
                   listening, rangeVars, cmdHost, cmdAll, usage, rets>>

\* if err != nil { fl.Usage(); log.Fatalf(...) }  (scan.go:57-60)
RunCheckErr ==
    /\ runpc = "checkErr"
    /\ IF runFails(nsErr)
       THEN usage' = usage + 1 /\ runpc' = "fatal"
       ELSE usage' = usage /\ runpc' = "scan"
    /\ UNCHANGED <<scanVars, rangeVars, cmdHost, cmdAll, nsErr, sptr, rets>>

\* openPorts := scanner.scan(ctx): the call  (scan.go:64)
RunScan ==
    /\ runpc = "scan"
    /\ pc' = "range"
    /\ runpc' = "scanning"
    /\ UNCHANGED <<host, scanAll, openPorts, locked, ctx, idx, port, wg, ret,
                   gpc, p, dialled, found, tmp, listening, rangeVars,
                   cmdHost, cmdAll, usage, nsErr, sptr, rets>>

\* scan() has returned: Run logs the result and returns, which runs the
\* deferred cancel()  (scan.go:65-73, 49)
RunReport ==
    /\ runpc = "scanning"
    /\ pc = "done"
    /\ runpc' = "returned"
    /\ ctx' = "cancelled"
    /\ UNCHANGED <<host, scanAll, openPorts, locked, pc, idx, port, wg, ret,
                   gpc, p, dialled, found, tmp, listening, rangeVars,
                   cmdHost, cmdAll, usage, nsErr, sptr, rets>>

RunStep == RunCheckHost \/ NewScannerCall \/ RunCheckErr

RunNext ==
    \/ RunCheckHost
    \/ NewScannerCall
    \/ RunCheckErr
    \/ RunScan
    \/ RunReport
    \/ LoopNext
    \/ LoopEnd
    \/ WgAdd
    \/ Go
    \/ Wait
    \/ Return
    \/ \E g \in Goroutines : IsOpenCall(g)
    \/ \E g \in Goroutines : Lock(g)
    \/ \E g \in Goroutines : AppendRead(g)
    \/ \E g \in Goroutines : AppendWrite(g)
    \/ \E g \in Goroutines : Unlock(g)
    \/ \E g \in Goroutines : WgDone(g)

RunSpec == RunInit /\ [][RunNext]_vars

----------------------------------------------------------------------------
\* Properties of newScanner and Run

\* C11: when newScanner has returned, it has returned an error and no
\* scanner if the host is no IP literal, and otherwise no error and a
\* scanner with the given host, the given scanAll and no open ports.
C11_NewScanner ==
    runpc = "checkErr" =>
        IF cmdHost \in {"127.0.0.1", "::1"}
        THEN /\ nsErr = "none"
             /\ sptr = "scanner"
             /\ host = cmdHost
             /\ scanAll = cmdAll
             /\ openPorts = <<>>
        ELSE /\ nsErr # "none"
             /\ sptr = "nil"

C11_Witness ==
    /\ runpc = "checkErr"
    /\ cmdHost = "::1"
    /\ cmdAll
    /\ sptr = "scanner"
    /\ host = "::1"

\* C14: when the host flag is empty or no IP literal, Run goes on, without
\* getting stuck, to print the usage text and end in the fatal error; scan()
\* is never called and no probe goroutine is ever started.
C14_InvalidHostIsFatal ==
    cmdHost \notin {"127.0.0.1", "::1"} =>
        /\ runpc \in {"start", "newScanner", "checkErr", "fatal"}
        /\ runpc # "fatal" => (usage = 0 /\ ENABLED RunStep)
        /\ runpc = "fatal" => usage = 1
        /\ pc = "none"
        /\ wg = 0
        /\ \A g \in Goroutines : gpc[g] = "idle" /\ dialled[g] = 0

C14_Witness ==
    /\ runpc = "fatal"
    /\ cmdHost = "example.com"
    /\ usage = 1
    /\ nsErr # "none"

----------------------------------------------------------------------------
\* A caller that calls scan() again on the same scanner, once the call
\* before has returned.

\* scan() starts with a new WaitGroup and leaves s.openPorts as it finds it
\* (scan.go:106-109).  (openPortsReset: a scan that starts from no ports.)
openPortsReset == <<>>

openPortsAtEntry == openPorts

Rescan ==
    /\ pc = "done"
    /\ Len(rets) + 1 < MaxScans
    /\ rets' = Append(rets, ret)
    /\ openPorts' = openPortsAtEntry
    /\ pc' = "range"
    /\ idx' = 0
    /\ port' = 0
    /\ wg' = 0
    /\ ret' = <<>>
    /\ gpc' = [g \in Goroutines |-> "idle"]
    /\ p' = [g \in Goroutines |-> 0]
    /\ dialled' = [g \in Goroutines |-> 0]
    /\ found' = [g \in Goroutines |-> FALSE]
    /\ tmp' = [g \in Goroutines |-> <<>>]
    /\ UNCHANGED <<host, scanAll, locked, ctx, listening, rangeVars,
                   cmdHost, cmdAll, runpc, usage, nsErr, sptr>>

\* The steps of the scans and the next call; the context is left alone.
RescanNext ==
    \/ LoopNext
    \/ LoopEnd
    \/ WgAdd
    \/ Go
    \/ Wait
    \/ Return
    \/ \E g \in Goroutines : IsOpenCall(g)
    \/ \E g \in Goroutines : Lock(g)
    \/ \E g \in Goroutines : AppendRead(g)
    \/ \E g \in Goroutines : AppendWrite(g)
    \/ \E g \in Goroutines : Unlock(g)
    \/ \E g \in Goroutines : WgDone(g)
    \/ Rescan

RescanSpec == Init /\ [][RescanNext]_vars

----------------------------------------------------------------------------
\* Properties of scanning again

Count(q, s) == Cardinality({i \in DOMAIN s : s[i] = q})

\* C13: when scan() has returned again on the same scanner and target, the
\* slice it returns holds the same set of ports as each slice returned
\* before.
C13_SameSetTwice ==
    pc = "done" => \A i \in DOMAIN rets : Range(rets[i]) = Range(ret)

C13_Witness ==
    /\ pc = "done"
    /\ Len(rets) = 1
    /\ Len(rets[1]) >= 2
    /\ SubSeq(ret, Len(rets[1]) + 1, Len(ret)) # rets[1]

\* C19: the slice a later scan() returns is the slice the scan before
\* returned followed by the ports the later scan appended, so a port of the
\* list that is open appears once per scan made; and every step leaves
\* openPorts as it is or appends one element to it.
C19_NoReset ==
    /\ [](pc = "done" =>
            /\ \A i \in DOMAIN rets :
                   /\ Len(rets[i]) <= Len(ret)
                   /\ SubSeq(ret, 1, Len(rets[i])) = rets[i]
            /\ \A q \in Ports :
                   Count(q, ret) =
                       (IF isOpen(host, q) THEN Len(rets) + 1 ELSE 0))
    /\ [][\/ openPorts' = openPorts
          \/ \E q \in Watched : openPorts' = Append(openPorts, q)]_vars

C19_Witness ==
    /\ pc = "done"
    /\ Len(rets) = 1
    /\ Len(rets[1]) >= 2
    /\ Len(ret) = 2 * Len(rets[1])
    /\ \E q \in Ports : Count(q, ret) = 2

----------------------------------------------------------------------------
\* Properties of the mutex, the order of the result, the fan-out and the
\* WaitGroup

\* the goroutines between s.Lock() and s.Unlock()
InCS(g) == gpc[g] \in {"read", "write", "unlock"}
\* the goroutines started and not yet exited
Running == {g \in Goroutines : gpc[g] \notin {"idle", "exited"}}

\* C15: at most one goroutine is between Lock and Unlock, the mutex is
\* locked while one is, and every step that changes openPorts is the store
\* of a goroutine that is alone between Lock and Unlock.
C15_MutualExclusion ==
    /\ [](/\ Cardinality({g \in Goroutines : InCS(g)}) <= 1
          /\ (\E g \in Goroutines : InCS(g)) => locked)
    /\ [][openPorts' # openPorts =>
            \E g \in Goroutines :
                /\ gpc[g] = "write"
                /\ gpc'[g] = "unlock"
                /\ locked
                /\ \A h \in Goroutines \ {g} : ~InCS(h)]_vars

C15_Witness ==
    \E g, h \in Goroutines :
        /\ g # h
        /\ gpc[g] = "write"
        /\ gpc[h] = "lock"
        /\ locked

\* C16: every change of openPorts puts the port of the goroutine that
\* performs its append at the end, and scan() returns openPorts as it is, so
\* the result is in the order of the appends; which of two goroutines
\* waiting for the free mutex appends first is open, whatever their ports.
C16_OrderIsAppendOrder ==
    /\ [][openPorts' # openPorts =>
            \E g \in Goroutines :
                /\ gpc[g] = "write"
                /\ gpc'[g] = "unlock"
                /\ openPorts' = Append(openPorts, p[g])]_vars
    /\ [](pc = "done" => ret = openPorts)
    /\ [](\A g, h \in Goroutines :
              (g # h /\ gpc[g] = "lock" /\ gpc[h] = "lock" /\ ~locked) =>
                  (ENABLED Lock(g) /\ ENABLED Lock(h)))

\* one scan has appended in ascending order of port, the next in descending
C16_Witness ==
    /\ pc = "done"
    /\ rets = << <<1, 2, 8080>> >>
    /\ ret = <<1, 2, 8080, 8080, 2, 1>>

\* C17: starting the goroutines never waits for a goroutine: the loop, the
\* wg.Add and the go statement can always take their step, and so can every
\* probe that has not dialled yet, however many are in flight.
C17_UnboundedFanOut ==
    /\ (pc = "range" /\ idx < Len(scanList(scanAll))) => ENABLED LoopNext
    /\ pc = "add" => ENABLED WgAdd
    /\ pc = "go" => ENABLED Go
    /\ \A g \in Goroutines : gpc[g] = "isOpen" => ENABLED IsOpenCall(g)
    /\ Cardinality(Running) <= idx

\* all N goroutines of the scan are started and none has finished
C17_Witness ==
    /\ pc = "wait"
    /\ scanAll
    /\ Len(scanList(scanAll)) = MaxLow + 1
    /\ Cardinality(Running) = Len(scanList(scanAll))
    /\ \A g \in Started : gpc[g] = "isOpen"

\* C18: no step of scan(), of a probe goroutine or of add() changes host
\* or scanAll.
C18_HostAndScanAllFixed ==
    [][host' = host /\ scanAll' = scanAll]_vars

C18_Witness ==
    /\ host \in Hosts
    /\ \E g, h \in Goroutines :
           /\ dialled[g] # 0
           /\ gpc[g] \in {"read", "write"}
           /\ gpc[h] = "isOpen"

\* C20 as stated: in every state the WaitGroup counter equals the number of
\* goroutines started and not finished.
C20_CounterEqualsRunning ==
    wg = Cardinality(Running)

\* C20, amended: the counter equals the number of goroutines started and
\* not finished, plus one between wg.Add(1) and the go statement after it;
\* it is never negative; a goroutine is only started after its Add; and
\* scan() is past wg.Wait() only when every goroutine of the list has been
\* started and has finished.
C20_WaitGroupAccounting ==
    /\ wg = Cardinality(Running) + (IF pc = "go" THEN 1 ELSE 0)
    /\ wg >= 0
    /\ \A g \in Goroutines : gpc[g] # "idle" => g <= idx
    /\ pc \in {"return", "done"} =>
           /\ Running = {}
           /\ idx = Len(scanList(scanAll))
           /\ \A g \in Started : gpc[g] = "exited"

C20_Witness ==
    /\ pc = "go"
    /\ wg = 2
    /\ Cardinality(Running) = 1

====
